---- MODULE Spec2Model ----
(***************************************************************************)
(* Quotation editor, pricing engine and document store of the Gracy Boys   *)
(* quotation app (src/index.js).                                           *)
(*                                                                         *)
(* Numbers.  Quantities, unit prices, discounts and money amounts are      *)
(* exact decimals with two places, held as integers in hundredths (1.00 is *)
(* 100).  A product qty * unitPrice is then in units of 1/10000 and a tax  *)
(* amount in units of 1/1000000; toFixed(2) rounds such a value to         *)
(* hundredths, half away from zero.  The tax rate is a whole percentage.   *)
(*                                                                         *)
(* Strings.  A quotation number is the pair of its text up to the trailing *)
(* digit run and that digit run, so that formatting (padStart) and parsing *)
(* (/(\d+)$/ and parseInt) are computed as the code computes them.         *)
(*                                                                         *)
(* React.  A handler reads the props of the last render (rendered) and     *)
(* queues state updates; functional updaters read the state as updated so  *)
(* far.  Render commits the queue: until then later handler calls of the   *)
(* same component still see the previous render.                           *)
(*                                                                         *)
(* Nullable values are sequences of length 0 (null) or 1.                  *)
(*                                                                         *)
(* Fields that no logic reads (companyName, address, contactNumber,        *)
(* validUntil, terms, notes) behave as clientName does and are left out,   *)
(* as are the wall-clock fields dateIssued, createdAt and updatedAt of the *)
(* editor's documents.  The Dashboard reads createdAt, clientName and      *)
(* quotationNumber as text: its collections carry createdAt and hold text  *)
(* as sequences of characters, so that toLowerCase and includes are        *)
(* computed.  A field a document does not have is absent from its record.  *)
(***************************************************************************)
EXTENDS Integers, Sequences, FiniteSets, TLC

VARIABLES
    view,              \* [session -> "dashboard" | "editor"]      App state
    currentQuotation,  \* [session -> <<>> | <<quotation>>]         App state
    quotations,        \* [session -> Seq(quotation)]               App state
    rendered,          \* [session -> props of the last render]
    updates,           \* [session -> number of queued state updates]
    store,             \* [id -> document] the Firestore collection
    outbox,            \* [session -> Seq(write)] writes issued, not settled
    writes,            \* [session -> number of writes issued so far]
    deleting,          \* history: ids with a delete issued and no save since
    console,           \* [session -> last console message]
    nextQuotationId,   \* ids handed out by crypto.randomUUID (quotations)
    nextItemId,        \* ids handed out by crypto.randomUUID (line items)
    db,                \* server.js: the quotations array of db.json
    res,               \* server.js: the last request and its response
    clock,             \* server.js: the time new Date() reads
    nextRecordId,      \* server.js: ids handed out by uuidv4
    searchTerm         \* [session -> text] Dashboard state

react == <<view, currentQuotation, rendered, updates>>
firestore == <<store, outbox, writes, deleting>>
uuids == <<nextQuotationId, nextItemId>>
server == <<db, res, clock, nextRecordId>>
vars == <<react, quotations, firestore, console, uuids, server, searchTerm>>

----------------------------------------------------------------------------
(* Bounds of the model *)

MaxQuotationIds == 2
MaxItemIds == 2
MaxBatch == 2
MaxWrites == 2
MaxCalcItems == 2
MaxExisting == 2
MaxRecordIds == 2
MaxClock == 1
MaxShown == 4

\* Two browser sessions of one user share the collection.
Sessions == {1, 2}

(* Program constants *)

DefaultQty == 100
DefaultTaxRate == 18
PadWidth == 4
ThisYearPrefix == "QT-2026-"

----------------------------------------------------------------------------
(* Number and string helpers *)

Max(a, b) == IF a >= b THEN a ELSE b

\* (n / d).toFixed(2) read back by parseFloat, in hundredths; d > 0 is the
\* number of units of n in one hundredth.
ToFixed2(n, d) ==
    IF n >= 0 THEN (2 * n + d) \div (2 * d)
              ELSE 0 - ((2 * (0 - n) + d) \div (2 * d))

\* The text of a number input: either the decimal text of a number (in
\* hundredths, or a whole percentage) or a text parseFloat reads as NaN.
Num(n) == [numeric |-> TRUE, number |-> n]
NotANumber == [numeric |-> FALSE, number |-> 0]

\* parseFloat(value) || 0
ParseFloatOrZero(value) == IF value.numeric THEN value.number ELSE 0

RECURSIVE DecimalDigits(_)
DecimalDigits(n) ==
    IF n < 10 THEN <<n>> ELSE DecimalDigits(n \div 10) \o <<n % 10>>

RECURSIVE PadStart(_, _)
PadStart(ds, w) == IF Len(ds) >= w THEN ds ELSE PadStart(<<0>> \o ds, w)

RECURSIVE ParseInt(_)
ParseInt(ds) ==
    IF ds = <<>> THEN 0 ELSE 10 * ParseInt(SubSeq(ds, 1, Len(ds) - 1)) + ds[Len(ds)]

RECURSIVE SumSeq(_)
SumSeq(xs) == IF xs = <<>> THEN 0 ELSE xs[1] + SumSeq(Tail(xs))

SelectIds(items) == {items[i].id : i \in DOMAIN items}

----------------------------------------------------------------------------
(* Document model *)

\* getDefaultItem with one id for every item instead of a fresh one
getDefaultItem_SameId(id) ==
    [id |-> 1, requirement |-> "", qty |-> DefaultQty, unitPrice |-> 0,
     remark |-> "", amount |-> 0]

getDefaultItem(id) ==
    [id |-> id, requirement |-> "", qty |-> DefaultQty, unitPrice |-> 0,
     remark |-> "", amount |-> 0]

getNewQuotation(id, itemId, count) ==
    [id |-> id,
     clientName |-> "New Client",
     quotationNumber |-> [prefix |-> ThisYearPrefix,
                          digits |-> PadStart(DecimalDigits(count + 1), PadWidth)],
     items |-> <<getDefaultItem(itemId)>>,
     taxRate |-> DefaultTaxRate,
     discount |-> 0,
     status |-> "Draft",
     subtotal |-> 0,
     grandTotal |-> 0]

----------------------------------------------------------------------------
(* Pricing *)

RawSubtotal(items) ==
    SumSeq([i \in DOMAIN items |-> items[i].qty * items[i].unitPrice])

useQuotationCalculations(quotation) ==
    LET subtotal == RawSubtotal(quotation.items)               \* 1/10000
        taxAmount == subtotal * quotation.taxRate              \* 1/1000000
        totalBeforeDiscount == subtotal * 100 + taxAmount      \* 1/1000000
        grandTotal == totalBeforeDiscount - quotation.discount * 10000
    IN  [subtotal |-> ToFixed2(subtotal, 100),
         taxAmount |-> ToFixed2(taxAmount, 10000),
         grandTotal |-> ToFixed2(Max(0, grandTotal), 10000)]

----------------------------------------------------------------------------
(* Editor state updaters: the functions handed to setQuotation *)

NumberFields == {"taxRate", "discount"}

InputChange(prev, name, value) ==
    LET updatedValue == IF name \in NumberFields THEN ParseFloatOrZero(value)
                                                 ELSE value
    IN  [prev EXCEPT ![name] = updatedValue]

\* ItemChange without the recomputation of the item's amount
ItemChange_KeepAmount(prev, itemId, field, value) ==
    [prev EXCEPT !.items =
        [i \in DOMAIN prev.items |->
            IF prev.items[i].id = itemId
            THEN [prev.items[i] EXCEPT ![field] = ParseFloatOrZero(value)]
            ELSE prev.items[i]]]

\* ItemChange that adds an item with the edited field when no item matches
ItemChange_Append(prev, itemId, field, value) ==
    IF itemId \in SelectIds(prev.items)
    THEN ItemChange_KeepAmount(prev, itemId, field, value)
    ELSE [prev EXCEPT !.items =
            Append(@, [getDefaultItem(itemId) EXCEPT ![field] = ParseFloatOrZero(value)])]

ItemChange(prev, itemId, field, value) ==
    LET numericValue == ParseFloatOrZero(value)
        changed(item) ==
            LET newItem == [item EXCEPT ![field] = numericValue]
            IN  [newItem EXCEPT !.amount = ToFixed2(newItem.qty * newItem.unitPrice, 100)]
    IN  [prev EXCEPT !.items =
            [i \in DOMAIN prev.items |->
                IF prev.items[i].id = itemId THEN changed(prev.items[i])
                                             ELSE prev.items[i]]]

TextareaChange(prev, itemId, field, value) ==
    [prev EXCEPT !.items =
        [i \in DOMAIN prev.items |->
            IF prev.items[i].id = itemId THEN [prev.items[i] EXCEPT ![field] = value]
                                         ELSE prev.items[i]]]

AddItem(prev, itemId) ==
    [prev EXCEPT !.items = Append(prev.items, getDefaultItem(itemId))]

RemoveItem(prev, id) ==
    [prev EXCEPT !.items = SelectSeq(prev.items, LAMBDA item : item.id # id)]

----------------------------------------------------------------------------
(* React plumbing *)

\* The component whose handlers can be called: the one the last render
\* mounted.  A change of view is rendered before the next event, so only
\* updates of the mounted component's props can be pending behind a handler.
EditorShown(s) ==
    rendered[s].view = "editor" /\ view[s] = "editor" /\ rendered[s].quotation # <<>>
DashboardShown(s) == rendered[s].view = "dashboard" /\ view[s] = "dashboard"
CanQueue(s) == updates[s] < MaxBatch

\* setQuotation(prev => f(prev)): the updater runs on the state as updated
\* so far; it dereferences prev, so prev is a quotation.
SetQuotation(s, q) ==
    /\ currentQuotation' = [currentQuotation EXCEPT ![s] = <<q>>]
    /\ updates' = [updates EXCEPT ![s] = @ + 1]
    /\ UNCHANGED <<view, rendered>>

\* The props of a render: the App state, and in QuotationEditor the memoised
\* calculatedTotals.
RenderProps(v, cq) ==
    [view |-> v,
     quotation |-> cq,
     totals |-> IF v = "editor" /\ cq # <<>>
                THEN <<useQuotationCalculations(cq[1])>> ELSE <<>>]

Render(s) ==
    /\ updates[s] > 0
    /\ rendered' = [rendered EXCEPT ![s] = RenderProps(view[s], currentQuotation[s])]
    /\ updates' = [updates EXCEPT ![s] = 0]
    /\ UNCHANGED <<view, currentQuotation, quotations, firestore, console, uuids, server,
                     searchTerm>>

----------------------------------------------------------------------------
(* QuotationEditor handlers *)

handleInputChange(s, name, value) ==
    /\ EditorShown(s) /\ CanQueue(s) /\ currentQuotation[s] # <<>>
    /\ SetQuotation(s, InputChange(currentQuotation[s][1], name, value))
    /\ UNCHANGED <<quotations, firestore, console, uuids, server, searchTerm>>

\* handleItemChange that also writes the edited draft to the collection
handleItemChange_AutoSave(s, itemId, field, value) ==
    /\ EditorShown(s) /\ CanQueue(s) /\ currentQuotation[s] # <<>>
    /\ itemId \in SelectIds(rendered[s].quotation[1].items)
    /\ LET q == ItemChange(currentQuotation[s][1], itemId, field, value)
       IN  /\ SetQuotation(s, q)
           /\ store' = [i \in DOMAIN store \cup {q.id} |->
                            IF i = q.id THEN q ELSE store[i]]
    /\ UNCHANGED <<quotations, outbox, writes, deleting, console, uuids, server, searchTerm>>

handleItemChange(s, itemId, field, value) ==
    /\ EditorShown(s) /\ CanQueue(s) /\ currentQuotation[s] # <<>>
    /\ itemId \in SelectIds(rendered[s].quotation[1].items)
    /\ SetQuotation(s, ItemChange(currentQuotation[s][1], itemId, field, value))
    /\ UNCHANGED <<quotations, firestore, console, uuids, server, searchTerm>>

handleTextareaChange(s, itemId, field, value) ==
    /\ EditorShown(s) /\ CanQueue(s) /\ currentQuotation[s] # <<>>
    /\ itemId \in SelectIds(rendered[s].quotation[1].items)
    /\ SetQuotation(s, TextareaChange(currentQuotation[s][1], itemId, field, value))
    /\ UNCHANGED <<quotations, firestore, console, uuids, server, searchTerm>>

handleAddItem(s) ==
    /\ EditorShown(s) /\ CanQueue(s) /\ currentQuotation[s] # <<>>
    /\ nextItemId <= MaxItemIds
    /\ SetQuotation(s, AddItem(currentQuotation[s][1], nextItemId))
    /\ nextItemId' = nextItemId + 1
    /\ UNCHANGED <<quotations, firestore, console, nextQuotationId, server, searchTerm>>

\* The guard reads the rendered quotation; the updater filters the state.
handleRemoveItem(s, id) ==
    /\ EditorShown(s) /\ CanQueue(s) /\ currentQuotation[s] # <<>>
    /\ id \in SelectIds(rendered[s].quotation[1].items)
    /\ Len(rendered[s].quotation[1].items) > 1
    /\ SetQuotation(s, RemoveItem(currentQuotation[s][1], id))
    /\ UNCHANGED <<quotations, firestore, console, uuids, server, searchTerm>>

----------------------------------------------------------------------------
(* Firestore collection *)

\* SetDocMerge in which the fields of the stored document win over the data
SetDocMerge_KeepStored(st, id, data) ==
    [i \in DOMAIN st \cup {id} |->
        IF i = id THEN (IF id \in DOMAIN st THEN st[id] @@ data ELSE data)
                  ELSE st[i]]

\* setDoc(docRef, data, {merge: true}): creates the document, or overwrites
\* the fields data carries and keeps the others.
SetDocMerge(st, id, data) ==
    [i \in DOMAIN st \cup {id} |->
        IF i = id THEN (IF id \in DOMAIN st THEN data @@ st[id] ELSE data)
                  ELSE st[i]]

DeleteDoc(st, id) == [i \in DOMAIN st \ {id} |-> st[i]]

ApplyWrite(st, w) ==
    IF w.op = "setDoc" THEN SetDocMerge(st, w.id, w.data[1]) ELSE DeleteDoc(st, w.id)

\* snapshot.docs.map(...): the documents in document-id order.
RECURSIVE SnapshotDocs(_)
SnapshotDocs(st) ==
    IF DOMAIN st = {} THEN <<>>
    ELSE LET last == CHOOSE i \in DOMAIN st : \A j \in DOMAIN st : j <= i
         IN  Append(SnapshotDocs(DeleteDoc(st, last)), st[last])

\* onSnapshot that appends the delivered documents to the list it had
onSnapshot_Append(s) ==
    /\ quotations[s] # SnapshotDocs(store)
    /\ quotations' = [quotations EXCEPT ![s] = @ \o SnapshotDocs(store)]
    /\ UNCHANGED <<react, firestore, console, uuids, server, searchTerm>>

\* The listener delivers the current collection; setQuotations replaces the
\* list, and the dashboard shows it from then on.
onSnapshot(s) ==
    /\ quotations[s] # SnapshotDocs(store)
    /\ quotations' = [quotations EXCEPT ![s] = SnapshotDocs(store)]
    /\ UNCHANGED <<react, firestore, console, uuids, server, searchTerm>>

\* onSnapshotError that also empties the list
onSnapshotError_Clear(s) ==
    /\ console[s] # "Error listening to quotations"
    /\ console' = [console EXCEPT ![s] = "Error listening to quotations"]
    /\ quotations' = [quotations EXCEPT ![s] = <<>>]
    /\ UNCHANGED <<react, firestore, uuids, server, searchTerm>>

\* The listener's error callback: console.error and nothing else.
onSnapshotError(s) ==
    /\ console[s] # "Error listening to quotations"
    /\ console' = [console EXCEPT ![s] = "Error listening to quotations"]
    /\ UNCHANGED <<react, quotations, firestore, uuids, server, searchTerm>>

----------------------------------------------------------------------------
(* App handlers *)

\* The Save Draft button: onSave({...quotation, ...calculatedTotals}).
SavePayload(s) == rendered[s].totals[1] @@ rendered[s].quotation[1]

FinalQuotation(quotationToSave) ==
    useQuotationCalculations(quotationToSave) @@ quotationToSave

IssueWrite(s, w) ==
    /\ writes[s] < MaxWrites
    /\ writes' = [writes EXCEPT ![s] = @ + 1]
    /\ outbox' = [outbox EXCEPT ![s] = Append(@, w)]
    /\ store' = store

\* handleSaveQuotation writing the rendered quotation as it is, without totals
handleSaveQuotation_AsIs(s) ==
    /\ EditorShown(s)
    /\ LET q == rendered[s].quotation[1]
       IN  /\ IssueWrite(s, [op |-> "setDoc", id |-> q.id, data |-> <<q>>])
           /\ deleting' = deleting \ {q.id}
    /\ UNCHANGED <<react, quotations, console, uuids, server, searchTerm>>

\* handleSaveQuotation up to its await: the write is issued.
handleSaveQuotation(s) ==
    /\ EditorShown(s)
    /\ LET finalQuotation == FinalQuotation(SavePayload(s))
       IN  /\ IssueWrite(s, [op |-> "setDoc", id |-> finalQuotation.id,
                             data |-> <<finalQuotation>>])
           /\ deleting' = deleting \ {finalQuotation.id}
    /\ UNCHANGED <<react, quotations, console, uuids, server, searchTerm>>

\* handleSaveQuotation calls the hook useQuotationCalculations (useMemo)
\* outside a render, before its try block.  React's dispatcher decides what
\* that does: where it rejects the call, the handler ends there with the
\* error and issues no write.
handleSaveQuotationInvalidHook(s) ==
    /\ EditorShown(s)
    /\ console[s] # "Invalid hook call"
    /\ console' = [console EXCEPT ![s] = "Invalid hook call"]
    /\ UNCHANGED <<react, quotations, firestore, uuids, server, searchTerm>>

\* The Delete Quotation button with the confirmation accepted:
\* onDelete(quotation.id) up to its await, then onBack().
handleDeleteQuotation(s) ==
    /\ EditorShown(s) /\ CanQueue(s)
    /\ IssueWrite(s, [op |-> "deleteDoc", id |-> rendered[s].quotation[1].id,
                      data |-> <<>>])
    /\ deleting' = deleting \cup {rendered[s].quotation[1].id}
    /\ currentQuotation' = [currentQuotation EXCEPT ![s] = <<>>]
    /\ view' = [view EXCEPT ![s] = "dashboard"]
    /\ updates' = [updates EXCEPT ![s] = @ + 1]
    /\ UNCHANGED <<rendered, quotations, console, uuids, server, searchTerm>>

\* The store applies the oldest write of a session and its promise resolves:
\* the rest of handleSaveQuotation / handleDeleteQuotation runs.
StoreCommit(s) ==
    /\ outbox[s] # <<>>
    /\ LET w == Head(outbox[s])
       IN  /\ store' = ApplyWrite(store, w)
           /\ IF w.op = "setDoc"
              THEN /\ CanQueue(s)
                   /\ console' = [console EXCEPT ![s] = "Quotation saved successfully"]
                   /\ currentQuotation' = [currentQuotation EXCEPT ![s] = w.data]
                   /\ updates' = [updates EXCEPT ![s] = @ + 1]
              ELSE /\ console' = [console EXCEPT ![s] = "Quotation deleted successfully"]
                   /\ UNCHANGED <<currentQuotation, updates>>
    /\ outbox' = [outbox EXCEPT ![s] = Tail(@)]
    /\ UNCHANGED <<view, rendered, quotations, writes, deleting, uuids, server, searchTerm>>

\* StoreReject with a catch block that issues the failed write again
StoreReject_Retry(s) ==
    /\ outbox[s] # <<>>
    /\ LET w == Head(outbox[s])
       IN  /\ console' = [console EXCEPT ![s] =
                  IF w.op = "setDoc" THEN "Error saving quotation"
                                     ELSE "Error deleting quotation"]
           /\ outbox' = [outbox EXCEPT ![s] = Append(Tail(@), w)]
    /\ UNCHANGED <<react, quotations, store, writes, deleting, uuids, server, searchTerm>>

\* The store rejects the oldest write of a session: the catch block runs.
StoreReject(s) ==
    /\ outbox[s] # <<>>
    /\ LET w == Head(outbox[s])
       IN  /\ console' = [console EXCEPT ![s] =
                  IF w.op = "setDoc" THEN "Error saving quotation"
                                     ELSE "Error deleting quotation"]
           /\ deleting' = IF w.op = "deleteDoc" THEN deleting \ {w.id} ELSE deleting
    /\ outbox' = [outbox EXCEPT ![s] = Tail(@)]
    /\ UNCHANGED <<react, quotations, store, writes, uuids, server, searchTerm>>

\* MaxNum that counts the quotations instead of parsing their numbers
MaxNum_Count(qs) == Len(qs)

\* quotations.reduce(...): the largest trailing digit run, 0 when none parses.
RECURSIVE MaxNum(_)
MaxNum(qs) ==
    IF qs = <<>> THEN 0
    ELSE LET q == qs[Len(qs)]
             max == MaxNum(SubSeq(qs, 1, Len(qs) - 1))
         IN  IF q.quotationNumber.digits # <<>>
             THEN Max(max, ParseInt(q.quotationNumber.digits)) ELSE max

handleNewQuotation(s) ==
    /\ DashboardShown(s) /\ CanQueue(s)
    /\ nextQuotationId <= MaxQuotationIds /\ nextItemId <= MaxItemIds
    /\ currentQuotation' = [currentQuotation EXCEPT ![s] =
            <<getNewQuotation(nextQuotationId, nextItemId, MaxNum(quotations[s]))>>]
    /\ view' = [view EXCEPT ![s] = "editor"]
    /\ updates' = [updates EXCEPT ![s] = @ + 1]
    /\ nextQuotationId' = nextQuotationId + 1
    /\ nextItemId' = nextItemId + 1
    /\ UNCHANGED <<rendered, quotations, firestore, console, server, searchTerm>>

handleEditQuotation(s, i) ==
    /\ DashboardShown(s) /\ CanQueue(s)
    /\ i \in DOMAIN quotations[s]
    /\ currentQuotation' = [currentQuotation EXCEPT ![s] = <<quotations[s][i]>>]
    /\ view' = [view EXCEPT ![s] = "editor"]
    /\ updates' = [updates EXCEPT ![s] = @ + 1]
    /\ UNCHANGED <<rendered, quotations, firestore, console, uuids, server, searchTerm>>

handleBackToDashboard(s) ==
    /\ EditorShown(s) /\ CanQueue(s)
    /\ currentQuotation' = [currentQuotation EXCEPT ![s] = <<>>]
    /\ view' = [view EXCEPT ![s] = "dashboard"]
    /\ updates' = [updates EXCEPT ![s] = @ + 1]
    /\ UNCHANGED <<rendered, quotations, firestore, console, uuids, server, searchTerm>>

----------------------------------------------------------------------------
(* The REST store of src/server.js.  Every handler reads db.json, answers
   and writes it back with synchronous calls, so a request is one step.  A
   record is a JSON object: a function from the field names it has. *)

NoResponse == [method |-> "", id |-> <<>>, sent |-> <<>>, status |-> 0, body |-> <<>>]

\* The request (method, req.params.id, and req.body where the handler reads
\* it) with the response to it (status and JSON body).
Response(method, id, status, body) ==
    [method |-> method, id |-> id, sent |-> <<>>, status |-> status, body |-> body]

\* db.quotations.find(item => item.id === id), null as <<>>
RECURSIVE FindQuotation(_, _)
FindQuotation(quotationsOfDb, id) ==
    IF quotationsOfDb = <<>> THEN <<>>
    ELSE IF Head(quotationsOfDb).id = id THEN <<Head(quotationsOfDb)>>
    ELSE FindQuotation(Tail(quotationsOfDb), id)

\* db.quotations.findIndex(item => item.id === id), -1 as 0
FindIndex(quotationsOfDb, id) ==
    IF \E i \in DOMAIN quotationsOfDb : quotationsOfDb[i].id = id
    THEN CHOOSE i \in DOMAIN quotationsOfDb :
            /\ quotationsOfDb[i].id = id
            /\ \A j \in 1..(i - 1) : quotationsOfDb[j].id # id
    ELSE 0

\* FilterOut that takes out the first matching record only
FilterOut_First(quotationsOfDb, id) ==
    LET idx == FindIndex(quotationsOfDb, id)
    IN  IF idx = 0 THEN quotationsOfDb
        ELSE SubSeq(quotationsOfDb, 1, idx - 1)
                \o SubSeq(quotationsOfDb, idx + 1, Len(quotationsOfDb))

\* db.quotations.filter(item => item.id !== id)
FilterOut(quotationsOfDb, id) ==
    SelectSeq(quotationsOfDb, LAMBDA item : item.id # id)

\* GET /api/quotations/:id
GetOneResponse(quotationsOfDb, id) ==
    LET q == FindQuotation(quotationsOfDb, id)
    IN  IF q = <<>> THEN Response("GET", <<id>>, 404, <<[message |-> "Not found"]>>)
                    ELSE Response("GET", <<id>>, 200, q)

\* GET /api/quotations
GetQuotations ==
    /\ res' = Response("GET", <<>>, 200, <<db>>)
    /\ UNCHANGED <<react, quotations, firestore, console, uuids, db, clock, nextRecordId,
                     searchTerm>>

GetQuotation(id) ==
    /\ res' = GetOneResponse(db, id)
    /\ UNCHANGED <<react, quotations, firestore, console, uuids, db, clock, nextRecordId,
                     searchTerm>>

\* PostQuotation working on the collection as it was read when the server
\* started, not on the one the earlier requests wrote
PostQuotation_StartupRead(payload) ==
    /\ nextRecordId <= MaxRecordIds
    /\ LET newQ == payload @@ [id |-> nextRecordId, created_at |-> clock,
                               updated_at |-> clock]
       IN  /\ db' = <<newQ>>
           /\ res' = [Response("POST", <<>>, 201, <<newQ>>) EXCEPT !.sent = <<payload>>]
    /\ nextRecordId' = nextRecordId + 1
    /\ UNCHANGED <<react, quotations, firestore, console, uuids, clock, searchTerm>>

\* POST /api/quotations: the payload's fields come last in the spread.
PostQuotation(payload) ==
    /\ nextRecordId <= MaxRecordIds
    /\ LET newQ == payload @@ [id |-> nextRecordId, created_at |-> clock,
                               updated_at |-> clock]
       IN  /\ db' = Append(db, newQ)
           /\ res' = [Response("POST", <<>>, 201, <<newQ>>) EXCEPT !.sent = <<payload>>]
    /\ nextRecordId' = nextRecordId + 1
    /\ UNCHANGED <<react, quotations, firestore, console, uuids, clock, searchTerm>>

\* PutQuotation that creates the record when the id is absent
PutQuotation_Upsert(id, body) ==
    LET idx == FindIndex(db, id)
        updated == IF idx = 0 THEN [updated_at |-> clock] @@ body @@ [id |-> id]
                              ELSE [updated_at |-> clock] @@ body @@ db[idx]
    IN  /\ db' = IF idx = 0 THEN Append(db, updated) ELSE [db EXCEPT ![idx] = updated]
        /\ res' = [Response("PUT", <<id>>, 200, <<updated>>) EXCEPT !.sent = <<body>>]
        /\ UNCHANGED <<react, quotations, firestore, console, uuids, clock, nextRecordId,
                         searchTerm>>

\* PutQuotation that stores the body in place of the record
PutQuotation_Replace(id, body) ==
    LET idx == FindIndex(db, id)
    IN  /\ IF idx = 0
           THEN /\ res' = [Response("PUT", <<id>>, 404, <<[message |-> "Not found"]>>)
                            EXCEPT !.sent = <<body>>]
                /\ db' = db
           ELSE LET updated == [updated_at |-> clock] @@ body @@ [id |-> id]
                IN  /\ db' = [db EXCEPT ![idx] = updated]
                    /\ res' = [Response("PUT", <<id>>, 200, <<updated>>)
                                  EXCEPT !.sent = <<body>>]
        /\ UNCHANGED <<react, quotations, firestore, console, uuids, clock, nextRecordId,
                         searchTerm>>

\* PUT /api/quotations/:id
PutQuotation(id, body) ==
    LET idx == FindIndex(db, id)
    IN  /\ IF idx = 0
           THEN /\ res' = [Response("PUT", <<id>>, 404, <<[message |-> "Not found"]>>)
                            EXCEPT !.sent = <<body>>]
                /\ db' = db
           ELSE LET updated == [updated_at |-> clock] @@ body @@ db[idx]
                IN  /\ db' = [db EXCEPT ![idx] = updated]
                    /\ res' = [Response("PUT", <<id>>, 200, <<updated>>)
                                  EXCEPT !.sent = <<body>>]
        /\ UNCHANGED <<react, quotations, firestore, console, uuids, clock, nextRecordId,
                         searchTerm>>

\* DELETE /api/quotations/:id
DeleteQuotation(id) ==
    /\ db' = FilterOut(db, id)
    /\ res' = Response("DELETE", <<id>>, 200, <<[success |-> TRUE]>>)
    /\ UNCHANGED <<react, quotations, firestore, console, uuids, clock, nextRecordId, searchTerm>>

\* Time passes between requests.
Tick ==
    /\ clock < MaxClock
    /\ clock' = clock + 1
    /\ UNCHANGED <<react, quotations, firestore, console, uuids, db, res, nextRecordId,
                     searchTerm>>

----------------------------------------------------------------------------
(* Dashboard: search, order and statistics *)

LowerCase(c) ==
    CASE c = "A" -> "a"
      [] c = "Q" -> "q"
      [] c = "R" -> "r"
      [] c = "T" -> "t"
      [] OTHER -> c

\* String.prototype.toLowerCase
toLowerCase(text) == [i \in DOMAIN text |-> LowerCase(text[i])]

\* String.prototype.includes
includes(text, term) ==
    \E i \in 0..(Len(text) - Len(term)) : SubSeq(text, i + 1, i + Len(term)) = term

\* A Firestore Timestamp, which has toDate, and a value that has not.
Timestamp(t) == [toDate |-> TRUE, time |-> t]
NotATimestamp == [toDate |-> FALSE, time |-> 0]

\* The quotation the snapshot callback makes of a document at time now:
\* { id: doc.id, ...doc.data(), createdAt: toDate() or new Date() }
FetchedQuotation(id, data, now) ==
    [createdAt |-> IF "createdAt" \in DOMAIN data /\ data.createdAt.toDate
                   THEN data.createdAt.time
                   ELSE now]
        @@ data @@ [id |-> id]

\* q.clientName?.toLowerCase().includes(l) || q.quotationNumber?...includes(l)
MatchesSearch(q, lowerCaseSearch) ==
    \/ "clientName" \in DOMAIN q /\ includes(toLowerCase(q.clientName), lowerCaseSearch)
    \/ "quotationNumber" \in DOMAIN q
         /\ includes(toLowerCase(q.quotationNumber), lowerCaseSearch)

\* One step of the stable sort with comparator b.createdAt - a.createdAt:
\* q goes behind every quotation that is not older than it.
InsertByCreatedAt(sorted, q) ==
    LET k == Cardinality({i \in DOMAIN sorted : sorted[i].createdAt >= q.createdAt})
    IN  SubSeq(sorted, 1, k) \o <<q>> \o SubSeq(sorted, k + 1, Len(sorted))

RECURSIVE SortByCreatedAt(_)
SortByCreatedAt(list) ==
    IF list = <<>> THEN <<>>
    ELSE InsertByCreatedAt(SortByCreatedAt(SubSeq(list, 1, Len(list) - 1)),
                           list[Len(list)])

filteredQuotations(s) ==
    LET lowerCaseSearch == toLowerCase(searchTerm[s])
        Kept(q) == MatchesSearch(q, lowerCaseSearch)
    IN  SortByCreatedAt(SelectSeq(quotations[s], Kept))

\* q.grandTotal && !isNaN(q.grandTotal) ? q.grandTotal : 0
RevenueOf(q) ==
    IF "grandTotal" \in DOMAIN q /\ q.grandTotal.numeric /\ q.grandTotal.number # 0
    THEN q.grandTotal.number
    ELSE 0

WithStatus(list, status) ==
    LET Has(q) == "status" \in DOMAIN q /\ q.status = status
    IN  SelectSeq(list, Has)

stats_AnyStatus(s) ==
    LET list == filteredQuotations(s)
        all == [i \in DOMAIN list |-> RevenueOf(list[i])]
    IN  [total |-> Len(list),
         pending |-> Len(WithStatus(list, "Pending")),
         accepted |-> Len(WithStatus(list, "Accepted")),
         revenue |-> ToFixed2(SumSeq(all), 1)]

stats(s) ==
    LET list == filteredQuotations(s)
        accepted == WithStatus(list, "Accepted")
        revenues == [i \in DOMAIN accepted |-> RevenueOf(accepted[i])]
    IN  [total |-> Len(list),
         pending |-> Len(WithStatus(list, "Pending")),
         accepted |-> Len(accepted),
         revenue |-> ToFixed2(SumSeq(revenues), 1)]

\* onChange of the search box: setSearchTerm(e.target.value)
handleSearchChange(s, term) ==
    /\ DashboardShown(s)
    /\ searchTerm' = [searchTerm EXCEPT ![s] = term]
    /\ UNCHANGED <<react, quotations, firestore, console, uuids, server>>

----------------------------------------------------------------------------
(* The application: every session starts on the empty dashboard *)

Init ==
    /\ view = [s \in Sessions |-> "dashboard"]
    /\ currentQuotation = [s \in Sessions |-> <<>>]
    /\ quotations = [s \in Sessions |-> <<>>]
    /\ rendered = [s \in Sessions |-> RenderProps("dashboard", <<>>)]
    /\ updates = [s \in Sessions |-> 0]
    /\ store = <<>>
    /\ outbox = [s \in Sessions |-> <<>>]
    /\ writes = [s \in Sessions |-> 0]
    /\ deleting = {}
    /\ console = [s \in Sessions |-> ""]
    /\ nextQuotationId = 1
    /\ nextItemId = 1
    /\ db = <<>>
    /\ res = NoResponse
    /\ clock = 0
    /\ nextRecordId = 1
    /\ searchTerm = [s \in Sessions |-> <<>>]

ItemIds == 1..MaxItemIds

\* The navigation, save and delete steps of one session.
AppStep(s) ==
    \/ Render(s)
    \/ handleNewQuotation(s)
    \/ \E i \in 1..MaxQuotationIds : handleEditQuotation(s, i)
    \/ handleBackToDashboard(s)
    \/ handleSaveQuotation(s)
    \/ handleSaveQuotationInvalidHook(s)
    \/ handleDeleteQuotation(s)
    \/ StoreCommit(s)
    \/ StoreReject(s)
    \/ onSnapshot(s)
    \/ onSnapshotError(s)

(* One session editing, saving and deleting against the collection *)
NextSync ==
    \/ AppStep(1)
    \/ handleInputChange(1, "status", "Accepted")
    \/ \E id \in ItemIds : handleItemChange(1, id, "unitPrice", Num(250))
    \/ handleAddItem(1)
    \/ \E id \in ItemIds : handleRemoveItem(1, id)

SpecSync == Init /\ [][NextSync]_vars

(* The editor alone: every field and line-item operation on new drafts *)
QtyInputs == {NotANumber, Num(40)}
PriceInputs == {Num(-100), Num(4)}

NextEditor ==
    \/ Render(1)
    \/ handleNewQuotation(1)
    \/ handleBackToDashboard(1)
    \/ handleInputChange(1, "taxRate", NotANumber)
    \/ handleInputChange(1, "discount", Num(50))
    \/ handleInputChange(1, "status", "Pending")
    \/ \E id \in ItemIds, value \in QtyInputs : handleItemChange(1, id, "qty", value)
    \/ \E id \in ItemIds, value \in PriceInputs :
            handleItemChange(1, id, "unitPrice", value)
    \/ \E id \in ItemIds : handleTextareaChange(1, id, "requirement", "Stage")
    \/ handleAddItem(1)
    \/ \E id \in ItemIds : handleRemoveItem(1, id)

SpecEditor == Init /\ [][NextEditor]_vars

(* Two sessions sharing one stored quotation: session 1 has created and
   saved it and gone back to the dashboard, and both listeners have
   delivered it *)
SharedQuotation == FinalQuotation(getNewQuotation(1, 1, 0))

InitShared ==
    /\ view = [s \in Sessions |-> "dashboard"]
    /\ currentQuotation = [s \in Sessions |-> <<>>]
    /\ quotations = [s \in Sessions |-> <<SharedQuotation>>]
    /\ rendered = [s \in Sessions |-> RenderProps("dashboard", <<>>)]
    /\ updates = [s \in Sessions |-> 0]
    /\ store = <<SharedQuotation>>
    /\ outbox = [s \in Sessions |-> <<>>]
    /\ writes = [s \in Sessions |-> IF s = 1 THEN 1 ELSE 0]
    /\ deleting = {}
    /\ console = [s \in Sessions |-> IF s = 1 THEN "Quotation saved successfully" ELSE ""]
    /\ nextQuotationId = 2
    /\ nextItemId = 2
    /\ db = <<>>
    /\ res = NoResponse
    /\ clock = 0
    /\ nextRecordId = 1
    /\ searchTerm = [s \in Sessions |-> <<>>]

NextShared ==
    \/ \E s \in Sessions : Render(s)
    \/ \E s \in Sessions, i \in 1..MaxQuotationIds : handleEditQuotation(s, i)
    \/ \E s \in Sessions : handleBackToDashboard(s)
    \/ \E s \in Sessions, id \in ItemIds : handleItemChange(s, id, "unitPrice", Num(250))
    \/ \E s \in Sessions : handleSaveQuotation(s)
    \/ \E s \in Sessions : handleDeleteQuotation(s)
    \/ \E s \in Sessions : StoreCommit(s)
    \/ \E s \in Sessions : onSnapshot(s)

SpecShared == InitShared /\ [][NextShared]_vars

(* The pricing function over bounded quotations: a quotation opened in the
   editor and not yet rendered *)
CalcQtys == {0, 4, 40, 100}
CalcPrices == {-100, 0, 4, 40}
CalcTaxRates == {0, 18, 50}
CalcDiscounts == {0, 50}

CalcItem(id, qty, unitPrice) ==
    [getDefaultItem(id) EXCEPT !.qty = qty, !.unitPrice = unitPrice,
                               !.amount = ToFixed2(qty * unitPrice, 100)]

CalcItems ==
    UNION {[1..n -> {CalcItem(1, q, p) : q \in CalcQtys, p \in CalcPrices}] :
           n \in 1..MaxCalcItems}

CalcQuotations ==
    {[getNewQuotation(1, 1, 0) EXCEPT !.items = items, !.taxRate = t, !.discount = d] :
        items \in CalcItems, t \in CalcTaxRates, d \in CalcDiscounts}

InitCalc ==
    /\ view = [s \in Sessions |-> IF s = 1 THEN "editor" ELSE "dashboard"]
    /\ \E q \in CalcQuotations :
          currentQuotation = [s \in Sessions |-> IF s = 1 THEN <<q>> ELSE <<>>]
    /\ quotations = [s \in Sessions |-> <<>>]
    /\ rendered = [s \in Sessions |-> RenderProps("dashboard", <<>>)]
    /\ updates = [s \in Sessions |-> IF s = 1 THEN 1 ELSE 0]
    /\ store = <<>>
    /\ outbox = [s \in Sessions |-> <<>>]
    /\ writes = [s \in Sessions |-> 0]
    /\ deleting = {}
    /\ console = [s \in Sessions |-> ""]
    /\ nextQuotationId = 2
    /\ nextItemId = 2
    /\ db = <<>>
    /\ res = NoResponse
    /\ clock = 0
    /\ nextRecordId = 1
    /\ searchTerm = [s \in Sessions |-> <<>>]

NextCalc == Render(1)

SpecCalc == InitCalc /\ [][NextCalc]_vars

(* Numbering: a session on the dashboard of a collection that earlier runs
   have filled; the quotation numbers have been edited by hand since *)
NumberTexts ==
    {[prefix |-> "QT-2024-", digits |-> <<0, 0, 0, 1>>],
     [prefix |-> "QT-2024-", digits |-> <<0, 0, 0, 7>>],
     [prefix |-> "QT-2024-", digits |-> <<0, 0, 0, 0>>],
     [prefix |-> "QT-2024-", digits |-> <<9, 9, 9, 9>>],
     [prefix |-> "QT-2024-", digits |-> <<0, 0, 0, 1, 2>>],
     [prefix |-> "", digits |-> <<4, 2>>],
     [prefix |-> "QT-2024-0007 (revised)", digits |-> <<>>]}

\* Ids that crypto.randomUUID handed out in earlier runs.
OldId(k) == 0 - k

ExistingQuotation(id, number) ==
    FinalQuotation([getNewQuotation(id, id, 0) EXCEPT !.quotationNumber = number])

InitNumber ==
    /\ view = [s \in Sessions |-> "dashboard"]
    /\ currentQuotation = [s \in Sessions |-> <<>>]
    /\ \E n \in 0..MaxExisting : \E number \in [1..n -> NumberTexts] :
          store = [id \in {OldId(k) : k \in 1..n} |->
                      ExistingQuotation(id, number[0 - id])]
    /\ quotations = [s \in Sessions |-> SnapshotDocs(store)]
    /\ rendered = [s \in Sessions |-> RenderProps("dashboard", <<>>)]
    /\ updates = [s \in Sessions |-> 0]
    /\ outbox = [s \in Sessions |-> <<>>]
    /\ writes = [s \in Sessions |-> 0]
    /\ deleting = {}
    /\ console = [s \in Sessions |-> ""]
    /\ nextQuotationId = 1
    /\ nextItemId = 1
    /\ db = <<>>
    /\ res = NoResponse
    /\ clock = 0
    /\ nextRecordId = 1
    /\ searchTerm = [s \in Sessions |-> <<>>]

NextNumber ==
    \/ Render(1)
    \/ handleNewQuotation(1)
    \/ handleBackToDashboard(1)

SpecNumber == InitNumber /\ [][NextNumber]_vars

(* Edits of an item the draft no longer has: the editor still shows the
   draft with items 1 and 2, the removal of item 1 is queued, and the inputs
   of the row of item 1 are used before the next render *)
RemovedItemId == 1

InitMissing ==
    /\ view = [s \in Sessions |-> IF s = 1 THEN "editor" ELSE "dashboard"]
    /\ \E qty \in CalcQtys, unitPrice \in CalcPrices, taxRate \in CalcTaxRates :
          LET shown == [getNewQuotation(1, 1, 0) EXCEPT
                          !.items = <<getDefaultItem(RemovedItemId),
                                      CalcItem(2, qty, unitPrice)>>,
                          !.taxRate = taxRate]
          IN  /\ rendered = [s \in Sessions |->
                     IF s = 1 THEN RenderProps("editor", <<shown>>)
                              ELSE RenderProps("dashboard", <<>>)]
              /\ currentQuotation = [s \in Sessions |->
                     IF s = 1 THEN <<RemoveItem(shown, RemovedItemId)>> ELSE <<>>]
    /\ quotations = [s \in Sessions |-> <<>>]
    /\ updates = [s \in Sessions |-> IF s = 1 THEN 1 ELSE 0]
    /\ store = <<>>
    /\ outbox = [s \in Sessions |-> <<>>]
    /\ writes = [s \in Sessions |-> 0]
    /\ deleting = {}
    /\ console = [s \in Sessions |-> ""]
    /\ nextQuotationId = 2
    /\ nextItemId = 3
    /\ db = <<>>
    /\ res = NoResponse
    /\ clock = 0
    /\ nextRecordId = 1
    /\ searchTerm = [s \in Sessions |-> <<>>]

NextMissing ==
    \/ Render(1)
    \/ \E value \in QtyInputs : handleItemChange(1, RemovedItemId, "qty", value)
    \/ \E value \in PriceInputs : handleItemChange(1, RemovedItemId, "unitPrice", value)
    \/ \E field \in {"requirement", "remark"} :
            handleTextareaChange(1, RemovedItemId, field, "Stage")

SpecMissing == InitMissing /\ [][NextMissing]_vars

(* The REST store under requests of its clients *)
RecordIds == 1..MaxRecordIds

Bodies ==
    {[clientName |-> "Asha"],
     [clientName |-> "Ravi", status |-> "Accepted"],
     [id |-> 1, clientName |-> "Ravi"],
     [clientName |-> "Asha", created_at |-> 0 - 1, updated_at |-> 0 - 1]}

NextServer ==
    \/ GetQuotations
    \/ \E id \in RecordIds : GetQuotation(id)
    \/ \E payload \in Bodies : PostQuotation(payload)
    \/ \E id \in RecordIds, body \in Bodies : PutQuotation(id, body)
    \/ \E id \in RecordIds : DeleteQuotation(id)
    \/ Tick

SpecServer == Init /\ [][NextServer]_vars

(* The Dashboard over a delivered collection: the search box is typed into *)
SnapshotTime == 3

SearchTerms == {<<>>, <<"a">>, <<"A">>, <<"q", "t">>, <<"z">>}

DashboardFields == {"clientName", "quotationNumber", "status", "grandTotal", "createdAt"}

\* The document with the given fields less the missing ones.
Document(fields, missing) == [f \in DashboardFields \ missing |-> fields[f]]

SearchDocuments ==
    {Document([clientName |-> c, quotationNumber |-> <<"Q", "T", "1">>,
               status |-> "Draft", grandTotal |-> Num(0), createdAt |-> Timestamp(1)],
              missing) :
        c \in {<<"R", "a">>, <<"T", "i">>},
        missing \in SUBSET {"clientName", "quotationNumber"}}

SortDocuments ==
    {Document([clientName |-> <<"R", "a">>, quotationNumber |-> <<"Q", "T", "1">>,
               status |-> "Draft", grandTotal |-> Num(0), createdAt |-> t],
              missing) :
        t \in {Timestamp(1), Timestamp(2), NotATimestamp},
        missing \in SUBSET {"createdAt"}}

StatsDocuments ==
    {Document([clientName |-> <<"R", "a">>, quotationNumber |-> <<"Q", "T", "1">>,
               status |-> st, grandTotal |-> g, createdAt |-> Timestamp(1)],
              missing) :
        st \in {"Draft", "Pending", "Accepted"},
        g \in {Num(10000), Num(5000), NotANumber},
        missing \in SUBSET {"grandTotal"}}

Collections(documents) == UNION {[1..n -> documents] : n \in 0..MaxShown}

InitDashboard ==
    /\ view = [s \in Sessions |-> "dashboard"]
    /\ currentQuotation = [s \in Sessions |-> <<>>]
    /\ rendered = [s \in Sessions |-> RenderProps("dashboard", <<>>)]
    /\ updates = [s \in Sessions |-> 0]
    /\ \E docs \in Collections(SearchDocuments) \cup Collections(SortDocuments)
                     \cup Collections(StatsDocuments) :
          /\ store = docs
          /\ quotations =
               [s \in Sessions |->
                   [i \in DOMAIN docs |-> FetchedQuotation(i, docs[i], SnapshotTime)]]
    /\ outbox = [s \in Sessions |-> <<>>]
    /\ writes = [s \in Sessions |-> 0]
    /\ deleting = {}
    /\ console = [s \in Sessions |-> ""]
    /\ nextQuotationId = 1
    /\ nextItemId = 1
    /\ db = <<>>
    /\ res = NoResponse
    /\ clock = SnapshotTime
    /\ nextRecordId = 1
    /\ searchTerm = [s \in Sessions |-> <<>>]

NextDashboard == \E term \in SearchTerms : handleSearchChange(1, term)

SpecDashboard == InitDashboard /\ [][NextDashboard]_vars

----------------------------------------------------------------------------
(* Properties *)

Drafts == {currentQuotation[s][1] : s \in {t \in Sessions : currentQuotation[t] # <<>>}}
ItemsOf(q) == {q.items[i] : i \in DOMAIN q.items}
Abs(n) == IF n >= 0 THEN n ELSE 0 - n

\* a is n/d rounded to the nearest whole number, a tie going away from zero
IsRounded(a, n, d) ==
    /\ 2 * Abs(n - a * d) <= d
    /\ 2 * Abs(n - a * d) = d => Abs(a * d) > Abs(n)

SequenceOf(q) == ParseInt(q.quotationNumber.digits)
TotalsFields == {"subtotal", "taxAmount", "grandTotal"}
PendingSaves(s, id) ==
    {i \in DOMAIN outbox[s] : outbox[s][i].op = "setDoc" /\ outbox[s][i].id = id}
PendingDeletes(id) ==
    {<<s, i>> \in Sessions \X (1..MaxWrites) :
        i \in DOMAIN outbox[s] /\ outbox[s][i].op = "deleteDoc" /\ outbox[s][i].id = id}
ErrorMessages == {"Error saving quotation", "Error deleting quotation"}

\* C1: the draft in the editor always has at least one line item.
C1_ItemsNeverEmpty == \A q \in Drafts : Len(q.items) >= 1

\* C2: a newly created quotation gets a sequence number strictly greater
\* than the sequence number of every quotation in the store at that moment.
C2_NewNumberAboveStore ==
    [][\A s \in Sessions :
         (nextQuotationId' = nextQuotationId + 1 /\ currentQuotation'[s] # currentQuotation[s])
         => \A id \in DOMAIN store :
               store[id].quotationNumber.digits # <<>>
               => SequenceOf(currentQuotation'[s][1]) > SequenceOf(store[id])]_vars

\* C3: every stored record carries subtotal, taxAmount and grandTotal equal
\* to the totals computed afresh from its own items, taxRate and discount.
C3_StoredTotalsFresh ==
    \A id \in DOMAIN store :
        /\ TotalsFields \subseteq DOMAIN store[id]
        /\ [f \in TotalsFields |-> store[id][f]] = useQuotationCalculations(store[id])

C3_Witness ==
    \E id \in DOMAIN store :
        /\ store[id].grandTotal > 0
        /\ \E item \in ItemsOf(store[id]) : item.unitPrice > 0

\* C4: no session has two saves of the same quotation in flight together.
C4_OneSaveInFlight ==
    \A s \in Sessions : \A id \in 1..MaxQuotationIds : Cardinality(PendingSaves(s, id)) <= 1

\* C5: every line item of every draft has amount = qty * unitPrice rounded
\* to two decimals.
C5_AmountIsRoundedProduct ==
    \A q \in Drafts : \A item \in ItemsOf(q) :
        IsRounded(item.amount, item.qty * item.unitPrice, 100)

C5_Witness ==
    \E q \in Drafts : \E item \in ItemsOf(q) :
        item.qty = 40 /\ item.unitPrice = 4 /\ item.amount = 2

\* C6: the grand total returned by the totals function is
\* max(0, subtotal + taxAmount - discount) over the rounded subtotal and
\* taxAmount the same call returns.
C6_GrandTotalFromRounded ==
    \A s \in Sessions :
        rendered[s].totals # <<>>
        => LET t == rendered[s].totals[1]
               q == rendered[s].quotation[1]
           IN  t.grandTotal = Max(0, t.subtotal + t.taxAmount - q.discount)

\* C7: the subtotal returned by the totals function is the sum of the line
\* items' amount fields.
C7_SubtotalIsSumOfAmounts ==
    \A s \in Sessions :
        rendered[s].totals # <<>>
        => LET items == rendered[s].quotation[1].items
           IN  rendered[s].totals[1].subtotal
                 = SumSeq([i \in DOMAIN items |-> items[i].amount])

\* C8: the step in which a save or delete fails leaves the session's draft
\* and view as they were, drops the failed write and issues no other.
C8_FailedWriteLeavesDraft ==
    [][\A s \in Sessions :
         (console'[s] \in ErrorMessages
            /\ (console'[s] # console[s] \/ Len(outbox'[s]) < Len(outbox[s])))
         => /\ currentQuotation'[s] = currentQuotation[s]
            /\ view'[s] = view[s]
            /\ outbox[s] # <<>> /\ outbox'[s] = Tail(outbox[s])
            /\ writes' = writes]_vars

C8_Witness ==
    \E s \in Sessions :
        /\ console[s] = "Error saving quotation"
        /\ currentQuotation[s] # <<>>
        /\ currentQuotation[s][1].id \notin DOMAIN store
        /\ \E item \in ItemsOf(currentQuotation[s][1]) : item.unitPrice > 0

\* C9: the stored collection changes only in a step that applies a pending
\* save or delete; creating, opening and editing a draft leave it as it is.
C9_StoreChangesOnlyByWrites ==
    [][store' # store
        => \E s \in Sessions :
              /\ outbox[s] # <<>>
              /\ store' = ApplyWrite(store, Head(outbox[s]))
              /\ outbox'[s] = Tail(outbox[s])]_vars

C9_Witness ==
    \E q \in Drafts :
        /\ q.id \in DOMAIN store
        /\ store[q.id].items # q.items
        /\ Len(q.items) > 1

\* C10: once a delete of a quotation has been applied, the quotation is
\* absent from the store unless a save of it was initiated after the delete
\* was issued.
C10_DeletedStaysAbsent ==
    \A id \in deleting : PendingDeletes(id) = {} => id \notin DOMAIN store

\* C11: the step that confirms a deletion leaves the session on the dashboard
\* with no current quotation, and from then on a step that gives the session
\* a current quotation which is the deleted one is the user creating or
\* opening a quotation (the step that enters the editor).
C11_DeletedNotCurrentAgain ==
    [][\A s \in Sessions :
         /\ (Len(outbox'[s]) > Len(outbox[s]) /\ outbox'[s][Len(outbox'[s])].op = "deleteDoc")
            => (view'[s] = "dashboard" /\ currentQuotation'[s] = <<>>)
         /\ (currentQuotation[s] = <<>> /\ currentQuotation'[s] # <<>>
                /\ currentQuotation'[s][1].id \in deleting)
            => (view[s] = "dashboard" /\ view'[s] = "editor")]_vars

\* C12: the step that applies a session's save leaves as the stored record
\* exactly the payload of that save, whatever another session's save had
\* stored before: the save applied last wins and nothing of the earlier
\* record survives.
C12_LastUpsertWins ==
    [][\A s \in Sessions :
         (outbox[s] # <<>> /\ outbox'[s] = Tail(outbox[s])
            /\ Head(outbox[s]).op = "setDoc" /\ store' = ApplyWrite(store, Head(outbox[s])))
         => /\ Head(outbox[s]).id \in DOMAIN store'
            /\ store'[Head(outbox[s]).id] = Head(outbox[s]).data[1]]_vars

\* Both sessions have saved their drafts of quotation 1, the drafts differ
\* in the unit price, the save with price 250 was applied (a listener has
\* delivered it) and the save with price 0 was applied after it.
C12_Witness ==
    /\ \A s \in Sessions :
          /\ outbox[s] = <<>> /\ console[s] = "Quotation saved successfully"
          /\ currentQuotation[s] # <<>> /\ currentQuotation[s][1].id = 1
    /\ currentQuotation[1][1].items # currentQuotation[2][1].items
    /\ \E t \in Sessions : /\ quotations[t] # <<>>
                           /\ quotations[t][1].items[1].unitPrice = 250
    /\ 1 \in DOMAIN store /\ store[1].items[1].unitPrice = 0

\* C13: the step in which the collection subscription fails leaves the
\* session's in-memory collection exactly as it was.
C13_ListenFailureKeepsCollection ==
    [][\A s \in Sessions :
         (console'[s] = "Error listening to quotations" /\ console[s] # console'[s])
         => quotations'[s] = quotations[s]]_vars

\* The subscription failed after the last delivery (the store has been
\* emptied since, which the list does not show) and the list is still there.
C13_Witness ==
    \E s \in Sessions :
        /\ console[s] = "Error listening to quotations"
        /\ quotations[s] # <<>>
        /\ store = <<>> /\ deleting # {}

\* C14: a step that changes a session's in-memory collection leaves it equal
\* to the delivered snapshot, the documents of the store: nothing else stays
\* from the list the session had.
C14_SnapshotReplaces ==
    [][\A s \in Sessions :
         quotations'[s] # quotations[s] => quotations'[s] = SnapshotDocs(store)]_vars

\* Started with the shared quotation in every session's list: a session's
\* list is empty after the delivery that followed the quotation's deletion.
C14_Witness ==
    \E s \in Sessions :
        /\ quotations[s] = <<>>
        /\ store = <<>>
        /\ 1 \in deleting

\* C15: whatever was typed into the qty and unitPrice inputs, every line
\* item of every draft has qty >= 0 and unitPrice >= 0.
C15_QtyAndPriceNonNegative ==
    \A q \in Drafts : \A item \in ItemsOf(q) : item.qty >= 0 /\ item.unitPrice >= 0

\* The numbers read from the trailing digits of the quotations of a list.
ParsedNumbers(qs) ==
    {ParseInt(qs[i].quotationNumber.digits) :
        i \in {j \in DOMAIN qs : qs[j].quotationNumber.digits # <<>>}}

\* C16: the step that creates a quotation gives it the sequence max + 1
\* written with at least four digits, zero-padded, where max is the largest
\* number parsed from the trailing digits of the session's quotations
\* (those without trailing digits ignored) and 0 when none parses.
C16_NextSequence ==
    [][\A s \in Sessions :
         (nextQuotationId' = nextQuotationId + 1 /\ currentQuotation'[s] # currentQuotation[s])
         => LET parsed == ParsedNumbers(quotations[s])
                max == IF parsed = {} THEN 0
                       ELSE CHOOSE m \in parsed : \A n \in parsed : n <= m
                ds == currentQuotation'[s][1].quotationNumber.digits
            IN  /\ ParseInt(ds) = max + 1
                /\ Len(ds) >= PadWidth
                /\ Len(ds) > PadWidth => ds[1] # 0]_vars

\* With 0001 and 0007 in the collection the new quotation has sequence 0008.
C16_Witness ==
    /\ ParsedNumbers(quotations[1]) = {1, 7}
    /\ currentQuotation[1] # <<>>
    /\ currentQuotation[1][1].quotationNumber.digits = <<0, 0, 0, 8>>

\* The line item a step has created: the last item of the draft of a session
\* whose item list the step extended or replaced while taking an item id.
CreatedItems ==
    {currentQuotation'[s][1].items[Len(currentQuotation'[s][1].items)] :
        s \in {t \in Sessions : /\ currentQuotation'[t] # <<>>
                                /\ currentQuotation'[t] # currentQuotation[t]}}

\* C17 as stated: a created default line item has qty, unitPrice and amount
\* all 0, empty requirement and remark, and an id not handed out before.
C17_DefaultItemZeroed ==
    [][nextItemId' = nextItemId + 1
        => /\ CreatedItems # {}
           /\ \A item \in CreatedItems :
                 /\ item.qty = 0 /\ item.unitPrice = 0 /\ item.amount = 0
                 /\ item.requirement = "" /\ item.remark = ""
                 /\ item.id \notin 1..(nextItemId - 1)]_vars

\* C17 as amended: a created default line item has qty 1, unitPrice and
\* amount 0, empty requirement and remark, and an id not handed out before.
C17_DefaultItem ==
    [][nextItemId' = nextItemId + 1
        => /\ CreatedItems # {}
           /\ \A item \in CreatedItems :
                 /\ item.qty = 100 /\ item.unitPrice = 0 /\ item.amount = 0
                 /\ item.requirement = "" /\ item.remark = ""
                 /\ item.id \notin 1..(nextItemId - 1)]_vars

\* A draft to which a default item has been added after its first one.
C17_Witness ==
    \E q \in Drafts :
        /\ Len(q.items) = 2
        /\ q.items[2].qty = 100 /\ q.items[2].unitPrice = 0 /\ q.items[2].amount = 0
        /\ q.items[2].id # q.items[1].id

\* C18: a step that takes items out of a session's draft takes exactly one
\* item out of a draft that had two or more, and keeps the other items as
\* they were and in their order; a draft with exactly one item keeps it.
C18_RemoveItemFrame ==
    [][\A s \in Sessions :
         (/\ currentQuotation[s] # <<>> /\ currentQuotation'[s] # <<>>
          /\ currentQuotation'[s][1].id = currentQuotation[s][1].id
          /\ SelectIds(currentQuotation'[s][1].items)
                # SelectIds(currentQuotation[s][1].items)
          /\ SelectIds(currentQuotation'[s][1].items)
                \subseteq SelectIds(currentQuotation[s][1].items))
         => LET items == currentQuotation[s][1].items
                after == currentQuotation'[s][1].items
            IN  /\ Len(items) >= 2
                /\ \E id \in SelectIds(items) :
                      after = SelectSeq(items, LAMBDA item : item.id # id)
                /\ Len(after) = Len(items) - 1
                /\ currentQuotation'[s][1] = [currentQuotation[s][1] EXCEPT !.items = after]]_vars

\* C19: an edit of qty, unitPrice, requirement or remark of an item id that
\* no item of the draft has queues an update that leaves the draft as it is,
\* items and header fields (every update queued here is such an edit).
C19_EditOfMissingItemIsNoOp ==
    [][\A s \in Sessions :
         updates'[s] > updates[s]
         => /\ RemovedItemId \notin SelectIds(currentQuotation[s][1].items)
            /\ currentQuotation'[s] = currentQuotation[s]]_vars

\* The render shows item 1, the draft does not have it, and an edit of
\* item 1 has been queued behind its removal.
C19_Witness ==
    /\ updates[1] = 2
    /\ RemovedItemId \in SelectIds(rendered[1].quotation[1].items)
    /\ RemovedItemId \notin SelectIds(currentQuotation[1][1].items)
    /\ currentQuotation[1][1].items # <<>>

\* C20: a remove request is answered with success whether or not the id is
\* present; it takes out every record with that id and nothing else, so the
\* collection is unchanged when the id is absent and a second remove of the
\* id changes nothing more; get of the id then reports not found.
C20_RemoveIdempotent ==
    [][(res'.method = "DELETE" /\ clock' = clock)
        => LET id == res'.id[1]
           IN  /\ res'.status = 200
               /\ FindQuotation(db, id) = <<>> => db' = db
               /\ \A i \in DOMAIN db' : db'[i].id # id
               /\ db' = SelectSeq(db, LAMBDA item : item.id # id)
               /\ SelectSeq(db', LAMBDA item : item.id # id) = db'
               /\ GetOneResponse(db', id).status = 404]_vars

\* A remove of id 1 has been answered with success while two records had
\* been created and the one that remains has another id.
C20_Witness ==
    /\ res.method = "DELETE" /\ res.id = <<1>> /\ res.status = 200
    /\ nextRecordId > MaxRecordIds
    /\ Len(db) = 1 /\ db[1].id = 2

\* A step of the REST store that answers a request naming an id.
RequestFor(methods) ==
    clock' = clock /\ res'.method \in methods /\ res'.id # <<>>

\* C21 as stated: get, update and delete of an id that no record has are
\* each answered with the not-found status and leave the collection as it is.
C21_NotFoundForAbsent ==
    [][(RequestFor({"GET", "PUT", "DELETE"}) /\ FindQuotation(db, res'.id[1]) = <<>>)
        => (res'.status = 404 /\ db' = db)]_vars

\* C21 as amended: get and update of an id that no record has are answered
\* with the not-found status, delete of such an id with success, and all
\* three leave the collection as it is.
C21_NotFoundForGetAndPut ==
    [][(RequestFor({"GET", "PUT", "DELETE"}) /\ FindQuotation(db, res'.id[1]) = <<>>)
        => /\ db' = db
           /\ res'.method \in {"GET", "PUT"} => res'.status = 404
           /\ res'.method = "DELETE" => res'.status = 200]_vars

\* An update of an id that no record has was answered with not found while
\* the collection holds a record.
C21_Witness ==
    /\ res.method = "PUT" /\ res.status = 404
    /\ db # <<>>
    /\ FindQuotation(db, res.id[1]) = <<>>

\* The record that overwrites in record old exactly the fields of body and
\* keeps the others.
Overwritten(old, body) ==
    [f \in DOMAIN old \cup DOMAIN body |-> IF f \in DOMAIN body THEN body[f] ELSE old[f]]

\* The collection d with its record idx replaced by record.
WithRecord(d, idx, record) == [i \in DOMAIN d |-> IF i = idx THEN record ELSE d[i]]

\* C22 as stated: an update of an existing id overwrites in the first record
\* with that id exactly the fields of the body, keeps every other field of
\* it and every other record; an update of an absent id changes nothing.
C22_PutOverwritesBodyFields ==
    [][RequestFor({"PUT"})
        => LET idx == FindIndex(db, res'.id[1])
           IN  IF idx = 0 THEN db' = db
               ELSE db' = WithRecord(db, idx, Overwritten(db[idx], res'.sent[1]))]_vars

\* C22 as amended: as stated, except that updated_at of the updated record
\* becomes the time of the write, whether or not the body carries it.
C22_PutOverwritesBodyFieldsAndStamps ==
    [][RequestFor({"PUT"})
        => LET idx == FindIndex(db, res'.id[1])
           IN  IF idx = 0 THEN db' = db
               ELSE db' = WithRecord(db, idx,
                             Overwritten(Overwritten(db[idx], res'.sent[1]),
                                         [updated_at |-> clock]))]_vars

\* A record with a status was updated by a body without one, at a later
\* time than its last write, next to another record.
C22_Witness ==
    /\ res.method = "PUT" /\ res.status = 200
    /\ "status" \notin DOMAIN res.sent[1]
    /\ "status" \in DOMAIN res.body[1] /\ res.body[1].status = "Accepted"
    /\ res.body[1].created_at = 0 /\ res.body[1].updated_at = 1
    /\ Len(db) = 2

\* C23: after every request no two records of the collection have the same
\* id, a created record has the id generated for it, and an update leaves
\* the id of every record as it was.
C23_IdsUniqueAndFixed ==
    [][/\ \A i, j \in DOMAIN db' : i # j => db'[i].id # db'[j].id
       /\ (clock' = clock /\ res'.method = "POST" /\ Len(db') = Len(db) + 1)
            => db'[Len(db')].id = nextRecordId
       /\ (clock' = clock /\ res'.method = "PUT")
            => (Len(db') = Len(db) /\ \A i \in DOMAIN db : db'[i].id = db[i].id)]_vars

\* C24: an update leaves created_at of every record as it was, whatever the
\* body carries, and every create and update sets updated_at of the record
\* it writes to the time of the write.
C24_TimestampsKept ==
    [][/\ (clock' = clock /\ res'.method = "PUT")
            => /\ Len(db') = Len(db)
               /\ \A i \in DOMAIN db : db'[i].created_at = db[i].created_at
               /\ FindIndex(db, res'.id[1]) # 0
                    => db'[FindIndex(db, res'.id[1])].updated_at = clock
       /\ (clock' = clock /\ res'.method = "POST" /\ Len(db') = Len(db) + 1)
            => /\ db'[Len(db')].updated_at = clock
               /\ db'[Len(db')].created_at = clock]_vars

\* The texts a and b are equal up to the case of their letters.
SameIgnoringCase(a, b) ==
    /\ Len(a) = Len(b)
    /\ \A i \in DOMAIN a : LowerCase(a[i]) = LowerCase(b[i])

ContainsIgnoringCase(text, term) ==
    \E i \in 1..(Len(text) + 1), j \in 0..Len(text) :
        /\ i <= j + 1
        /\ SameIgnoringCase(SubSeq(text, i, j), term)

Range(list) == {list[i] : i \in DOMAIN list}

\* C25: with the empty search term every quotation of the collection is in
\* the filtered list, also one that has neither clientName nor
\* quotationNumber; with a non-empty term the filtered list holds exactly the
\* quotations whose clientName or quotationNumber contains the term
\* ignoring case.
C25_SearchFilter ==
    LET term == searchTerm[1]
        list == filteredQuotations(1)
    IN  /\ term = <<>> => Range(list) = Range(quotations[1])
        /\ term # <<>> =>
             Range(list) =
               {q \in Range(quotations[1]) :
                   \/ "clientName" \in DOMAIN q /\ ContainsIgnoringCase(q.clientName, term)
                   \/ "quotationNumber" \in DOMAIN q
                        /\ ContainsIgnoringCase(q.quotationNumber, term)}

\* The stored createdAt of a listed quotation is a timestamp.
ValidCreatedAt(q) ==
    "createdAt" \in DOMAIN store[q.id] /\ store[q.id].createdAt.toDate

\* C26: the filtered list is ordered by stored createdAt, newest first, and
\* no quotation whose stored createdAt is missing or unparseable stands
\* before one whose createdAt is valid.
C26_NewestFirstInvalidLast ==
    LET list == filteredQuotations(1)
    IN  \A i, j \in DOMAIN list :
            i < j =>
              /\ ValidCreatedAt(list[i]) /\ ValidCreatedAt(list[j]) =>
                   store[list[i].id].createdAt.time >= store[list[j].id].createdAt.time
              /\ ~(~ValidCreatedAt(list[i]) /\ ValidCreatedAt(list[j]))

RECURSIVE SumOver(_, _)
SumOver(indices, amount) ==
    IF indices = {} THEN 0
    ELSE LET i == CHOOSE k \in indices : TRUE
         IN  amount[i] + SumOver(indices \ {i}, amount)

EnteredFields(q) ==
    [clientName |-> q.clientName, items |-> q.items, taxRate |-> q.taxRate,
     discount |-> q.discount, status |-> q.status]

\* C28: the step in which a save of the draft settles successfully leaves in
\* the draft what the user had entered up to that step, edits made while the
\* save was pending included.
C28_EditsSurviveSave ==
    [][\A s \in Sessions :
         (/\ outbox[s] # <<>> /\ outbox'[s] = Tail(outbox[s])
          /\ Head(outbox[s]).op = "setDoc"
          /\ console'[s] = "Quotation saved successfully"
          /\ currentQuotation[s] # <<>>
          /\ currentQuotation[s][1].id = Head(outbox[s]).id)
         => /\ currentQuotation'[s] # <<>>
            /\ EnteredFields(currentQuotation'[s][1])
                 = EnteredFields(currentQuotation[s][1])]_vars

\* The id of the quotation a session's editor holds, if any.
CurrentId(cq) == IF cq = <<>> THEN <<>> ELSE <<cq[1].id>>

\* C29: in every state a session's view is the editor exactly when it holds
\* a current quotation, and a step changes which quotation is held only
\* when it changes the view (the user creating, opening or leaving one).
C29_ViewMatchesCurrent ==
    /\ [](\A s \in Sessions : view[s] = "editor" <=> currentQuotation[s] # <<>>)
    /\ [][\A s \in Sessions :
            CurrentId(currentQuotation'[s]) # CurrentId(currentQuotation[s])
            => view'[s] # view[s]]_vars

\* The collection d after the request answered by r is applied to it alone.
AppliedTo(d, r) ==
    CASE r.method = "POST" -> Append(d, r.body[1])
      [] r.method = "PUT" /\ r.status = 200 ->
            WithRecord(d, FindIndex(d, r.id[1]), r.body[1])
      [] r.method = "DELETE" ->
            LET Other(q) == q.id # r.id[1] IN SelectSeq(d, Other)
      [] OTHER -> d

\* C30: every step of the store is one whole request applied to the
\* collection the requests before it left, so the collection after any
\* interleaving of the clients' requests is that of the requests applied one
\* at a time in the order of their steps, and no request's write is lost.
\* (A step after a create that hands out no id handles no request; a step
\* that repeats the last update or delete applies it once more.)
C30_RequestsApplyOneAtATime ==
    [][IF res'.method = "POST" /\ nextRecordId' = nextRecordId
       THEN db' = db
       ELSE db' = AppliedTo(db, res')]_vars

\* A create came between the create and the update of the first record: the
\* collection holds the update and the later create.
C30_Witness ==
    /\ res.method = "PUT" /\ res.status = 200 /\ res.id = <<1>>
    /\ Len(db) = 2
    /\ db[1].updated_at = 1 /\ db[1].clientName = "Ravi"
    /\ db[2].id = 2 /\ db[2].created_at = 1 /\ db[2].clientName = "Asha"

====
